---- MODULE Spec2Model ----
(***************************************************************************)
(* Boot orchestrator of the kernel (threads/init.c, here pintos.c): main,  *)
(* paging_init, read_command_line, parse_options, run_task, run_actions.   *)
(*                                                                         *)
(* Memory is the loader's argument window followed by the bytes that lie   *)
(* after it; a pointer into it is a byte offset from the window start      *)
(* (0-based, as in C) and the null pointer is NULLP.  A byte is a          *)
(* one-character string, the zero byte is NUL.                             *)
(***************************************************************************)
EXTENDS Integers, Sequences, FiniteSets, TLC

(***************************************************************************)
(* Bounds of the model.                                                    *)
(***************************************************************************)
\* size in bytes of the loader's argument window (128 in the real loader)
LOADER_ARGS_LEN == 24
\* bytes modelled after the window end, the last one always NUL
BeyondLen == 2
\* number of trailing bytes of the window that range over all contents
TailVar == 4
\* largest declared element count tried on the window-boundary inputs
MaxArgCnt == 4
\* largest memory top, in pages
MaxPages == 2

NUL == "NUL"
NULLP == -1

\* capacity of the static argument vector, argv[LOADER_ARGS_LEN / 2 + 1]
ArgvCapacity == (LOADER_ARGS_LEN \div 2) + 1

(***************************************************************************)
(* String literals of the source, as byte sequences.                       *)
(***************************************************************************)
OPT_H == <<"-", "h">>
OPT_Q == <<"-", "q">>
OPT_F == <<"-", "f">>
OPT_RS == <<"-", "r", "s">>
OPT_MLFQS == <<"-", "m", "l", "f", "q", "s">>
OPT_UL == <<"-", "u", "l">>
OPT_THREADS_TESTS ==
  <<"-", "t", "h", "r", "e", "a", "d", "s", "-", "t", "e", "s", "t", "s">>

ACT_RUN == <<"r", "u", "n">>
ACT_LS == <<"l", "s">>
ACT_CAT == <<"c", "a", "t">>
ACT_RM == <<"r", "m">>
ACT_PUT == <<"p", "u", "t">>
ACT_GET == <<"g", "e", "t">>

(***************************************************************************)
(* C strings in memory.                                                    *)
(***************************************************************************)
\* memory image of a byte sequence: offset o holds s[o + 1]
MkMem(s) == [o \in 0..(Len(s) - 1) |-> s[o + 1]]

\* strlen(m + o): number of bytes before the first NUL at or after o
RECURSIVE Strlen(_, _)
Strlen(m, o) == IF m[o] = NUL THEN 0 ELSE 1 + Strlen(m, o + 1)

\* strnlen(m + o, max): as strlen, but looks at no more than max bytes
RECURSIVE Strnlen(_, _, _)
Strnlen(m, o, max) ==
  IF max <= 0 THEN 0
  ELSE IF m[o] = NUL THEN 0 ELSE 1 + Strnlen(m, o + 1, max - 1)

\* offsets strnlen(m + o, max) looks at
StrnlenReads(m, o, max) ==
  LET n == Strnlen(m, o, max)
  IN  IF n < max THEN o..(o + n) ELSE o..(o + n - 1)

\* the string at m + o, as a byte sequence
CStr(m, o) == [k \in 1..Strlen(m, o) |-> m[o + k - 1]]

\* offsets read by a scan of the string at m + o up to and including its NUL
CStrReads(m, o) == o..(o + Strlen(m, o))

\* index of the first occurrence of byte c in sequence s, 0 if there is none
RECURSIVE IndexOf(_, _, _)
IndexOf(s, c, k) ==
  IF k > Len(s) THEN 0 ELSE IF s[k] = c THEN k ELSE IndexOf(s, c, k + 1)

(***************************************************************************)
(* The declared element count is a 32-bit unsigned word: its top bit and   *)
(* its low 31 bits; the assignment to int argc reinterprets it as signed.  *)
(***************************************************************************)
INT_MAX == 2147483647
INT_MIN == (-2147483647) - 1

ToInt(w) == IF w.top THEN INT_MIN + w.low ELSE w.low

Word(n) == [top |-> FALSE, low |-> n]

(***************************************************************************)
(* Inputs: command lines the loader may leave in the window.               *)
(***************************************************************************)
RECURSIVE Pack(_)
Pack(toks) ==
  IF toks = <<>> THEN <<>> ELSE Head(toks) \o <<NUL>> \o Pack(Tail(toks))

RECURSIVE Fill(_, _)
Fill(b, n) == IF n <= 0 THEN <<>> ELSE <<b>> \o Fill(b, n - 1)

\* the window holding the packed tokens, cut or NUL-padded to the window size
WindowOf(toks) ==
  LET s == Pack(toks)
  IN  IF Len(s) >= LOADER_ARGS_LEN THEN SubSeq(s, 1, LOADER_ARGS_LEN)
      ELSE s \o Fill(NUL, LOADER_ARGS_LEN - Len(s))

T_A == <<"a">>
T_XX == <<"x", "x">>
T_ZZ == <<"-", "z", "z">>
T_RS1 == <<"-", "r", "s", "=", "1">>
T_RS2 == <<"-", "r", "s", "=", "2">>
T_RS12 == <<"-", "r", "s", "=", "1", "2">>
T_RSX == <<"-", "r", "s", "=", "x">>
T_RSEQ == <<"-", "r", "s", "=">>
T_UL3 == <<"-", "u", "l", "=", "3">>
T_UL1 == <<"-", "u", "l", "=", "1">>
T_Q1 == <<"-", "q", "=", "1">>
T_ZZ5 == <<"-", "z", "z", "=", "5">>

CommandLines ==
  { <<>>,
    <<OPT_Q, T_RS12, ACT_RUN, T_A>>,
    <<OPT_Q, OPT_Q, ACT_RUN, T_A>>,
    <<T_RS1, T_RS2, ACT_RUN, T_A>>,
    <<T_RS2, T_RS1>>,
    <<T_UL3, T_UL1, ACT_RUN, T_A>>,
    <<T_UL1, OPT_F, T_UL3>>,
    <<OPT_THREADS_TESTS, ACT_RUN, T_A>>,
    <<OPT_THREADS_TESTS, OPT_THREADS_TESTS>>,
    <<OPT_F, OPT_MLFQS, OPT_F, ACT_LS>>,
    <<OPT_MLFQS, OPT_MLFQS>>,
    <<ACT_RUN, T_A>>,
    <<ACT_RUN>>,
    <<ACT_CAT>>,
    <<ACT_RUN, T_A, ACT_CAT, T_A, ACT_LS>>,
    <<ACT_LS, ACT_RM, T_A, ACT_RUN, T_XX>>,
    <<ACT_PUT, T_A, ACT_GET, T_A, ACT_RM>>,
    <<ACT_RUN, T_A, T_XX, ACT_RUN, T_A>>,
    <<ACT_RUN, T_A, ACT_RUN>>,
    <<ACT_RUN, T_A, OPT_Q>>,
    <<OPT_Q, ACT_RUN, OPT_Q, OPT_F>>,
    <<T_ZZ, OPT_Q, ACT_RUN, T_A>>,
    <<OPT_Q, T_ZZ5, OPT_F>>,
    <<OPT_H, OPT_Q, ACT_RUN, T_A>>,
    <<OPT_Q, OPT_H, T_ZZ>>,
    <<OPT_RS, ACT_RUN, T_A>>,
    <<T_RSEQ, ACT_RUN, T_A>>,
    <<OPT_UL, ACT_RUN, T_A>>,
    <<T_RSX, T_Q1, ACT_RUN, T_A>>,
    <<<<"-">>, OPT_Q>> }

\* windows whose last TailVar bytes take every value over {NUL, "a"}, after a
\* first string that fills the rest of the window
BoundaryWindows ==
  { Fill("a", LOADER_ARGS_LEN - TailVar - 1) \o <<NUL>> \o t :
      t \in [1..TailVar -> {NUL, "a"}] }

TopBitCounts == { [top |-> TRUE, low |-> 0], [top |-> TRUE, low |-> INT_MAX] }

\* virtual memory is built on top of user programs and the file system
Builds ==
  { b \in [USERPROG : BOOLEAN, FILESYS : BOOLEAN, VM : BOOLEAN] :
      b.VM => b.USERPROG /\ b.FILESYS }

\* the command lines are tried in every build with their own count and one
\* more, the boundary windows in one build with every count, and a window
\* packed with empty strings with the counts about the vector's capacity
Inputs ==
  { [window |-> WindowOf(c), cnt |-> Word(Len(c) + d), build |-> b] :
      c \in CommandLines, d \in {0, 1}, b \in Builds }
  \cup { [window |-> w, cnt |-> n, build |-> [USERPROG |-> TRUE, FILESYS |-> TRUE, VM |-> FALSE]] :
           w \in BoundaryWindows,
           n \in { Word(k) : k \in 0..MaxArgCnt } \cup TopBitCounts }
  \cup { [window |-> Fill(NUL, LOADER_ARGS_LEN), cnt |-> Word(n),
          build |-> [USERPROG |-> FALSE, FILESYS |-> FALSE, VM |-> FALSE]] :
           n \in {LOADER_ARGS_LEN \div 2, (LOADER_ARGS_LEN \div 2) + 1} }

\* what may lie in memory after the window
Beyonds == { Fill(b, BeyondLen - 1) \o <<NUL>> : b \in {NUL, "a"} }

(***************************************************************************)
(* Physical and virtual addresses of paging_init.                          *)
(***************************************************************************)
PGSIZE == 4096
PTE_P == 1
PTE_W == 2
\* the offset of the kernel's mapping of physical memory, in the model's scale
KERN_BASE == 1048576

ptov(paddr) == paddr + KERN_BASE

\* the linker symbols start and _end_kernel_text: the kernel's code lies in
\* the second physical page
start == ptov(PGSIZE)
_end_kernel_text == start + 1000

KernelPages == { ptov(n * PGSIZE) : n \in 0..(MaxPages - 1) }

VARIABLES
  pc,                  \* position in main
  panic_msg,           \* the message of PANIC, <<>> if there was none
  USERPROG, FILESYS, VM,   \* build configuration
  mem,                 \* bytes of the argument window and after it
  loaded,              \* the bytes as the loader left them
  arg_cnt,             \* the word at LOADER_ARG_CNT
  argv_array,          \* read_command_line's static argv[]
  argv_writes,         \* indices of argv[] written so far
  argc, i, p,          \* locals of read_command_line
  rcl_reads,           \* offsets read_command_line has read
  argv,                \* main's argv: an index into argv_array
  power_off_when_done, thread_tests, format_filesys,
  thread_mlfqs,        \* scheduler flag of the thread module
  user_page_limit,     \* <<n>> once -ul set it, <<>> before
  random_seed,         \* <<n>> once random_init(n) ran, <<>> before
  calls,               \* calls made so far, in order: <<function, argument>>
  step,                \* index of main's next start-up call
  mem_end,             \* memory top returned by palloc_init, in bytes
  base_pml4,           \* TRUE once the root table is allocated
  pa,                  \* loop variable of paging_init
  page_table,          \* leaf entry of each kernel virtual page, 0 if none
  active_pml4,         \* TRUE once pml4_activate switched to base_pml4
  handled              \* handler invocations of run_actions, in order

rclVars == <<arg_cnt, argv_array, argv_writes, argc, i, p, rcl_reads>>
cfgVars ==
  <<power_off_when_done, thread_tests, format_filesys, thread_mlfqs,
    user_page_limit, random_seed>>
buildVars == <<USERPROG, FILESYS, VM>>
pagingVars == <<mem_end, base_pml4, pa, page_table, active_pml4>>

vars ==
  <<pc, panic_msg, buildVars, mem, loaded, rclVars, argv, cfgVars, calls,
    step, pagingVars, handled>>

\* PANIC (...): debug_panic prints the message and never returns.  It lies
\* outside this file, and power_off is static in it (line 57): the halt does
\* not go through power_off.
Panic(msg) == pc' = "panic" /\ panic_msg' = msg

Init ==
  /\ pc = "bss_init"
  /\ panic_msg = <<>>
  /\ \E inp \in Inputs, b \in Beyonds :
       /\ mem = MkMem(inp.window \o b)
       /\ arg_cnt = inp.cnt
       /\ USERPROG = inp.build.USERPROG
       /\ FILESYS = inp.build.FILESYS
       /\ VM = inp.build.VM
  /\ loaded = mem
  /\ argv_array = [k \in 0..LOADER_ARGS_LEN |-> NULLP]
  /\ argv_writes = {}
  /\ argc = 0
  /\ i = 0
  /\ p = 0
  /\ rcl_reads = {}
  /\ argv = 0
  /\ power_off_when_done \in BOOLEAN
  /\ thread_tests \in BOOLEAN
  /\ format_filesys \in BOOLEAN
  /\ thread_mlfqs = FALSE
  /\ user_page_limit = <<>>
  /\ random_seed = <<>>
  /\ calls = <<>>
  /\ step = 1
  /\ mem_end = 0
  /\ base_pml4 = FALSE
  /\ pa = 0
  /\ page_table = [va \in KernelPages |-> 0]
  /\ active_pml4 = FALSE
  /\ handled = <<>>

\* bss_init, lines 111-116: the uninitialized statics become zero
BssInit ==
  /\ pc = "bss_init"
  /\ pc' = "read_command_line"
  /\ argv_array' = [k \in 0..LOADER_ARGS_LEN |-> NULLP]
  /\ power_off_when_done' = FALSE
  /\ thread_tests' = FALSE
  /\ format_filesys' = FALSE
  /\ UNCHANGED <<panic_msg, buildVars, mem, loaded, arg_cnt, argv_writes,
                 argc, i, p, rcl_reads, argv, thread_mlfqs, user_page_limit,
                 random_seed, calls, step, pagingVars, handled>>

\* read_command_line, lines 140-145
RclBegin ==
  /\ pc = "read_command_line"
  /\ p' = 0
  /\ argc' = ToInt(arg_cnt)
  /\ i' = 0
  /\ pc' = "rcl_scan"
  /\ UNCHANGED <<panic_msg, buildVars, mem, loaded, arg_cnt, argv_array,
                 argv_writes, rcl_reads, argv, cfgVars, calls, step,
                 pagingVars, handled>>

\* one iteration of the scanning loop, lines 147-153
RclScan ==
  /\ pc = "rcl_scan"
  /\ i < argc
  /\ IF p >= LOADER_ARGS_LEN
       THEN /\ Panic(<<"command line arguments overflow">>)
            /\ UNCHANGED <<argv_array, argv_writes, i, p, rcl_reads>>
       ELSE /\ argv_array' = [argv_array EXCEPT ![i] = p]
            /\ argv_writes' = argv_writes \cup {i}
            /\ p' = p + Strnlen(mem, p, LOADER_ARGS_LEN - p) + 1
            /\ rcl_reads' =
                 rcl_reads \cup StrnlenReads(mem, p, LOADER_ARGS_LEN - p)
            /\ i' = i + 1
            /\ UNCHANGED <<pc, panic_msg>>
  /\ UNCHANGED <<buildVars, mem, loaded, arg_cnt, argc, argv, cfgVars, calls,
                 step, pagingVars, handled>>

\* offsets the echo loop reads: strchr and printf("%s") scan each token up to
\* its NUL
EchoReads(av, n) ==
  IF n <= 0 THEN {} ELSE UNION { CStrReads(mem, av[k]) : k \in 0..(n - 1) }

\* the store argv[argc] = NULL lands outside the static array
StoreOutside(n) == n < 0 \/ n >= ArgvCapacity

\* lines 154-164: terminate the vector, echo the tokens, return it.  A store
\* outside the array is undefined: the boot may fault there or carry on.
RclFinish ==
  /\ pc = "rcl_scan"
  /\ ~(i < argc)
  /\ argv_writes' = argv_writes \cup {argc}
  /\ argv_array' =
       IF argc \in DOMAIN argv_array
         THEN [argv_array EXCEPT ![argc] = NULLP] ELSE argv_array
  /\ rcl_reads' = rcl_reads \cup EchoReads(argv_array', argc)
  /\ argv' = 0
  /\ \/ pc' = "parse_options"
     \/ /\ \E k \in argv_writes' : StoreOutside(k)
        /\ pc' = "fault"
  /\ UNCHANGED <<panic_msg, buildVars, mem, loaded, arg_cnt, argc, i, p,
                 cfgVars, calls, step, pagingVars, handled>>

(***************************************************************************)
(* parse_options                                                           *)
(***************************************************************************)
\* the loop condition of line 168: *argv != NULL && **argv == '-'
IsOption(m, a) == a /= NULLP /\ m[a] = "-"

\* strtok_r that does not cut the token at '='
StrtokName_NoSplit(m, a) ==
  [name |-> CStr(m, a), mem |-> m, save_ptr |-> a + Strlen(m, a)]

\* strtok_r that ends the token one byte late
StrtokName_CutsAfter(m, a) ==
  LET tok == CStr(m, a)
      eq == IndexOf(tok, "=", 1)
  IN  [name |-> IF eq = 0 THEN tok ELSE SubSeq(tok, 1, eq - 1),
       mem |-> IF eq = 0 THEN m ELSE [m EXCEPT ![a + eq] = NUL],
       save_ptr |-> IF eq = 0 THEN a + Len(tok) ELSE a + eq]

\* strtok_r (*argv, "=", &save_ptr) on a string that does not start with '=':
\* the token ends at the first '=', which is overwritten with NUL
StrtokName(m, a) ==
  LET tok == CStr(m, a)
      eq == IndexOf(tok, "=", 1)
  IN  [name |-> IF eq = 0 THEN tok ELSE SubSeq(tok, 1, eq - 1),
       mem |-> IF eq = 0 THEN m ELSE [m EXCEPT ![a + eq - 1] = NUL],
       save_ptr |-> IF eq = 0 THEN a + Len(tok) ELSE a + eq]

\* strtok_r (NULL, "", &save_ptr): the rest of the string, NULL if it is empty
StrtokValue(m, save_ptr) == IF m[save_ptr] = NUL THEN NULLP ELSE save_ptr

DigitValue ==
  [c \in {"0", "1", "2", "3", "4", "5", "6", "7", "8", "9"} |->
     CASE c = "0" -> 0 [] c = "1" -> 1 [] c = "2" -> 2 [] c = "3" -> 3
       [] c = "4" -> 4 [] c = "5" -> 5 [] c = "6" -> 6 [] c = "7" -> 7
       [] c = "8" -> 8 [] c = "9" -> 9]

RECURSIVE AtoiDigits(_, _)
AtoiDigits(s, acc) ==
  IF s = <<>> \/ Head(s) \notin DOMAIN DigitValue THEN acc
  ELSE AtoiDigits(Tail(s), acc * 10 + DigitValue[Head(s)])

RECURSIVE SkipSpaces(_)
SkipSpaces(s) ==
  IF s /= <<>> /\ Head(s) = " " THEN SkipSpaces(Tail(s)) ELSE s

\* atoi: optional blanks, optional sign, then the leading decimal digits;
\* text that does not start with a digit gives 0
Atoi(str) ==
  LET s == SkipSpaces(str)
  IN  IF s /= <<>> /\ Head(s) = "-" THEN 0 - AtoiDigits(Tail(s), 0)
      ELSE IF s /= <<>> /\ Head(s) = "+" THEN AtoiDigits(Tail(s), 0)
      ELSE AtoiDigits(s, 0)

\* what a read through a null pointer may deliver to atoi
GarbageInts == {0, 7}

\* the names the if-chain of lines 173-190 matches in this build
OptionNames ==
  {OPT_H, OPT_Q, OPT_RS, OPT_MLFQS}
    \cup (IF FILESYS THEN {OPT_F} ELSE {})
    \cup (IF USERPROG THEN {OPT_UL, OPT_THREADS_TESTS} ELSE {})

\* options whose branch calls atoi (value)
ValueOptions == {OPT_RS} \cup (IF USERPROG THEN {OPT_UL} ELSE {})

\* line 176
PowerOffWhenDoneOnQ(old) == TRUE

\* -ul that keeps a limit already set
UserPageLimitOnUl_FirstWins(old, n) == IF old = <<>> THEN <<n>> ELSE old

\* line 187: user_page_limit = atoi (value)
UserPageLimitOnUl(old, n) == <<n>>

\* random_init (seed): the generator state is a function of the seed alone
RandomInit(old, n) == <<n>>

\* a loop step that skips a token
NextOption_Skip(k) == k + 2

\* the step of the for loop, line 168: argv++
NextOption(k) == k + 1

\* a usage () that returns to its caller
Usage_Returns == "parse_options"

\* lines 249-278: where usage () leaves main: in power_off (), line 277
Usage == "power_off"

\* one iteration of the loop of parse_options, lines 168-193.  atoi (NULL)
\* reads through a null pointer: it faults or converts whatever lies there.
ParseOption ==
  /\ pc = "parse_options"
  /\ IsOption(mem, argv_array[argv])
  /\ LET tk == StrtokName(mem, argv_array[argv])
         name == tk.name
         value == StrtokValue(tk.mem, tk.save_ptr)
         text == IF value = NULLP THEN <<>> ELSE CStr(tk.mem, value)
         atoi_call ==
           IF value = NULLP THEN <<"atoi(NULL)", <<>>>> ELSE <<"atoi", text>>
     IN  /\ mem' = tk.mem
         /\ IF name = OPT_H
              THEN \* usage () ends in power_off () and does not return
                   /\ pc' = Usage
                   /\ calls' = Append(calls, <<"usage", <<>>>>)
                   /\ UNCHANGED <<panic_msg, argv, cfgVars>>
            ELSE IF name = OPT_Q
              THEN /\ power_off_when_done' =
                        PowerOffWhenDoneOnQ(power_off_when_done)
                   /\ argv' = NextOption(argv)
                   /\ UNCHANGED <<pc, panic_msg, thread_tests, format_filesys,
                                  thread_mlfqs, user_page_limit, random_seed,
                                  calls>>
            ELSE IF FILESYS /\ name = OPT_F
              THEN /\ format_filesys' = TRUE
                   /\ argv' = NextOption(argv)
                   /\ UNCHANGED <<pc, panic_msg, power_off_when_done,
                                  thread_tests, thread_mlfqs, user_page_limit,
                                  random_seed, calls>>
            ELSE IF name = OPT_RS
              THEN /\ \E n \in IF value = NULLP THEN GarbageInts
                                                ELSE {Atoi(text)} :
                        /\ random_seed' = RandomInit(random_seed, n)
                        /\ calls' =
                             calls \o <<atoi_call, <<"random_init", n>>>>
                   /\ \/ pc' = pc /\ argv' = NextOption(argv)
                      \/ value = NULLP /\ pc' = "fault" /\ argv' = argv
                   /\ UNCHANGED <<panic_msg, power_off_when_done, thread_tests,
                                  format_filesys, thread_mlfqs,
                                  user_page_limit>>
            ELSE IF name = OPT_MLFQS
              THEN /\ thread_mlfqs' = TRUE
                   /\ argv' = NextOption(argv)
                   /\ UNCHANGED <<pc, panic_msg, power_off_when_done,
                                  thread_tests, format_filesys,
                                  user_page_limit, random_seed, calls>>
            ELSE IF USERPROG /\ name = OPT_UL
              THEN /\ \E n \in IF value = NULLP THEN GarbageInts
                                                ELSE {Atoi(text)} :
                        user_page_limit' = UserPageLimitOnUl(user_page_limit, n)
                   /\ calls' = Append(calls, atoi_call)
                   /\ \/ pc' = pc /\ argv' = NextOption(argv)
                      \/ value = NULLP /\ pc' = "fault" /\ argv' = argv
                   /\ UNCHANGED <<panic_msg, power_off_when_done, thread_tests,
                                  format_filesys, thread_mlfqs, random_seed>>
            ELSE IF USERPROG /\ name = OPT_THREADS_TESTS
              THEN /\ thread_tests' = TRUE
                   /\ argv' = NextOption(argv)
                   /\ UNCHANGED <<pc, panic_msg, power_off_when_done,
                                  format_filesys, thread_mlfqs,
                                  user_page_limit, random_seed, calls>>
            ELSE /\ Panic(<<"unknown option", name>>)
                 /\ UNCHANGED <<argv, cfgVars, calls>>
  /\ UNCHANGED <<buildVars, loaded, rclVars, step, pagingVars, handled>>

\* line 195: the loop ended, parse_options returns argv
ParseOptionsReturn ==
  /\ pc = "parse_options"
  /\ ~IsOption(mem, argv_array[argv])
  /\ pc' = "init"
  /\ UNCHANGED <<panic_msg, buildVars, mem, loaded, rclVars, argv, cfgVars,
                 calls, step, pagingVars, handled>>

(***************************************************************************)
(* main, lines 69-100: the start-up calls                                  *)
(***************************************************************************)
\* a main that builds the page table before anything else is started
StartUpCalls_PagingFirst ==
  <<"paging_init", "thread_init", "console_init", "palloc_init",
    "malloc_init">>
    \o (IF USERPROG THEN <<"tss_init", "gdt_init">> ELSE <<>>)
    \o <<"intr_init", "timer_init", "kbd_init", "input_init">>
    \o (IF USERPROG THEN <<"exception_init", "syscall_init">> ELSE <<>>)
    \o <<"thread_start", "serial_init_queue", "timer_calibrate">>
    \o (IF FILESYS THEN <<"disk_init", "filesys_init">> ELSE <<>>)
    \o (IF VM THEN <<"vm_init">> ELSE <<>>)

StartUpCalls ==
  <<"thread_init", "console_init", "palloc_init", "malloc_init",
    "paging_init">>
    \o (IF USERPROG THEN <<"tss_init", "gdt_init">> ELSE <<>>)
    \o <<"intr_init", "timer_init", "kbd_init", "input_init">>
    \o (IF USERPROG THEN <<"exception_init", "syscall_init">> ELSE <<>>)
    \o <<"thread_start", "serial_init_queue", "timer_calibrate">>
    \o (IF FILESYS THEN <<"disk_init", "filesys_init">> ELSE <<>>)
    \o (IF VM THEN <<"vm_init">> ELSE <<>>)

\* a start-up call other than palloc_init and paging_init
StartSubsystem ==
  /\ pc = "init"
  /\ step <= Len(StartUpCalls)
  /\ StartUpCalls[step] \notin {"palloc_init", "paging_init"}
  /\ calls' =
       Append(calls,
              IF StartUpCalls[step] = "filesys_init"
                THEN <<"filesys_init", format_filesys>>
                ELSE <<StartUpCalls[step], <<>>>>)
  /\ step' = step + 1
  /\ UNCHANGED <<pc, panic_msg, buildVars, mem, loaded, rclVars, argv,
                 cfgVars, pagingVars, handled>>

\* line 72: mem_end = palloc_init ()
PallocInit ==
  /\ pc = "init"
  /\ step <= Len(StartUpCalls)
  /\ StartUpCalls[step] = "palloc_init"
  /\ \E n \in 1..MaxPages : mem_end' = n * PGSIZE
  /\ calls' = Append(calls, <<"palloc_init", <<>>>>)
  /\ step' = step + 1
  /\ UNCHANGED <<pc, panic_msg, buildVars, mem, loaded, rclVars, argv,
                 cfgVars, base_pml4, pa, page_table, active_pml4, handled>>

\* a main that enters run_actions before the subsystems are started
BootComplete_Early ==
  /\ pc = "init"
  /\ step = 1
  /\ pc' = "run_actions"
  /\ UNCHANGED <<panic_msg, buildVars, mem, loaded, rclVars, argv, cfgVars,
                 calls, step, pagingVars, handled>>

\* line 102: the start-up calls are done, run_actions is entered
BootComplete ==
  /\ pc = "init"
  /\ step > Len(StartUpCalls)
  /\ pc' = "run_actions"
  /\ UNCHANGED <<panic_msg, buildVars, mem, loaded, rclVars, argv, cfgVars,
                 calls, step, pagingVars, handled>>

(***************************************************************************)
(* paging_init                                                             *)
(***************************************************************************)
\* line 120: palloc_get_page (PAL_ASSERT | PAL_ZERO) gives a zeroed page or
\* panics
PagingInitAlloc ==
  /\ pc = "init"
  /\ step <= Len(StartUpCalls)
  /\ StartUpCalls[step] = "paging_init"
  /\ calls' = Append(calls, <<"paging_init", <<>>>>)
  /\ \/ /\ base_pml4' = TRUE
        /\ page_table' = [va \in KernelPages |-> 0]
        /\ pa' = 0
        /\ pc' = "paging_map"
        /\ UNCHANGED panic_msg
     \/ /\ Panic(<<"palloc_get: out of pages">>)
        /\ UNCHANGED <<base_pml4, page_table, pa>>
  /\ UNCHANGED <<buildVars, mem, loaded, rclVars, argv, cfgVars, step,
                 mem_end, active_pml4, handled>>

\* lines 127-129: the permission bits of the page at va
Perm(va) ==
  IF start <= va /\ va < _end_kernel_text THEN PTE_P ELSE PTE_P + PTE_W

\* line 133: pa | perm, pa being page-aligned
LeafEntry(paddr, perm) == paddr + perm

\* one iteration of the loop, lines 124-134.  pml4e_walk (pml4, va, 1) gives
\* the leaf entry, or NULL when it cannot allocate a table on the way.
PagingInitMap ==
  /\ pc = "paging_map"
  /\ pa < mem_end
  /\ LET va == ptov(pa)
     IN  \/ page_table' = [page_table EXCEPT ![va] = LeafEntry(pa, Perm(va))]
         \/ page_table' = page_table
  /\ pa' = pa + PGSIZE
  /\ UNCHANGED <<pc, panic_msg, buildVars, mem, loaded, rclVars, argv,
                 cfgVars, calls, step, mem_end, base_pml4, active_pml4,
                 handled>>

\* line 136: pml4_activate (0) loads base_pml4
PagingInitActivate ==
  /\ pc = "paging_map"
  /\ ~(pa < mem_end)
  /\ active_pml4' = base_pml4
  /\ pc' = "init"
  /\ step' = step + 1
  /\ UNCHANGED <<panic_msg, buildVars, mem, loaded, rclVars, argv, cfgVars,
                 calls, mem_end, base_pml4, pa, page_table, handled>>

(***************************************************************************)
(* run_task and run_actions                                                *)
(***************************************************************************)
\* run_task with the branches of the self-test flag exchanged
RunTask_Exchanged(task) ==
  IF USERPROG
    THEN IF thread_tests
           THEN << <<"process_create_initd", task>>, <<"process_wait", <<>>>> >>
           ELSE << <<"run_test", task>> >>
    ELSE << <<"run_test", task>> >>

\* lines 198-212: the calls run_task makes for the task argv[1]
RunTask(task) ==
  IF USERPROG
    THEN IF thread_tests
           THEN << <<"run_test", task>> >>
           ELSE << <<"process_create_initd", task>>, <<"process_wait", <<>>>> >>
    ELSE << <<"run_test", task>> >>

\* lines 221-228: the action table of this build
Actions ==
  << [name |-> ACT_RUN, argc |-> 2, function |-> "run_task"] >>
    \o (IF FILESYS
          THEN << [name |-> ACT_LS, argc |-> 1, function |-> "fsutil_ls"],
                  [name |-> ACT_CAT, argc |-> 2, function |-> "fsutil_cat"],
                  [name |-> ACT_RM, argc |-> 2, function |-> "fsutil_rm"],
                  [name |-> ACT_PUT, argc |-> 2, function |-> "fsutil_put"],
                  [name |-> ACT_GET, argc |-> 2, function |-> "fsutil_get"] >>
          ELSE <<>>)

RECURSIVE FindAction(_, _)

\* a scan that takes the last entry of the table when no name matches
FindAction_NoSentinel(name, k) ==
  IF k >= Len(Actions) THEN Len(Actions)
  ELSE IF Actions[k].name = name THEN k ELSE FindAction(name, k + 1)

\* lines 234-238: index of the first table entry named name, 0 when the scan
\* reaches the {NULL, 0, NULL} entry
FindAction(name, k) ==
  IF k > Len(Actions) THEN 0
  ELSE IF Actions[k].name = name THEN k ELSE FindAction(name, k + 1)

\* an argument check that stops one token early
MissingArgument_OffByOne(av, k, n) == \E j \in 1..(n - 2) : av[k + j] = NULLP

\* lines 240-242: some argv[i], 1 <= i < a->argc, is NULL
MissingArgument(av, k, n) == \E j \in 1..(n - 1) : av[k + j] = NULLP

\* the string argv[1] of a handler whose argv is at index k
Argument(av, k) == IF av[k + 1] = NULLP THEN <<>> ELSE CStr(mem, av[k + 1])

\* line 244: the calls a->function (argv) makes, argv being at index k
Invoke(a, av, k) ==
  IF a.function = "run_task" THEN RunTask(Argument(av, k))
  ELSE IF a.argc = 2 THEN << <<a.function, Argument(av, k)>> >>
  ELSE << <<a.function, <<>>>> >>

\* a step that moves to the next token only
Advance_One(k, n) == k + 1

\* line 245: argv += a->argc
Advance(k, n) == k + n

\* one iteration of the loop of run_actions, lines 230-246
RunAction ==
  /\ pc = "run_actions"
  /\ argv_array[argv] /= NULLP
  /\ LET name == CStr(mem, argv_array[argv])
         k == FindAction(name, 1)
     IN  IF k = 0
           THEN /\ Panic(<<"unknown action", name>>)
                /\ UNCHANGED <<argv, calls, handled>>
         ELSE IF MissingArgument(argv_array, argv, Actions[k].argc)
           THEN /\ Panic(<<"action requires argument(s)", name,
                           Actions[k].argc - 1>>)
                /\ UNCHANGED <<argv, calls, handled>>
         ELSE /\ calls' = calls \o Invoke(Actions[k], argv_array, argv)
              /\ handled' =
                   Append(handled, [function |-> Actions[k].function,
                                    at |-> argv])
              /\ argv' = Advance(argv, Actions[k].argc)
              /\ UNCHANGED <<pc, panic_msg>>
  /\ UNCHANGED <<buildVars, mem, loaded, rclVars, cfgVars, step, pagingVars>>

\* line 230: *argv == NULL, run_actions returns
RunActionsReturn ==
  /\ pc = "run_actions"
  /\ argv_array[argv] = NULLP
  /\ pc' = "main_end"
  /\ UNCHANGED <<panic_msg, buildVars, mem, loaded, rclVars, argv, cfgVars,
                 calls, step, pagingVars, handled>>

\* lines 106-108
MainEnd ==
  /\ pc = "main_end"
  /\ IF power_off_when_done
       THEN pc' = "power_off" /\ calls' = calls
       ELSE pc' = "idle" /\ calls' = Append(calls, <<"thread_exit", <<>>>>)
  /\ UNCHANGED <<panic_msg, buildVars, mem, loaded, rclVars, argv, cfgVars,
                 step, pagingVars, handled>>

(***************************************************************************)
(* power_off and print_stats                                               *)
(***************************************************************************)
PrintStats ==
  << <<"timer_print_stats", <<>>>>, <<"thread_print_stats", <<>>>> >>
    \o (IF FILESYS THEN << <<"disk_print_stats", <<>>>> >> ELSE <<>>)
    \o << <<"console_print_stats", <<>>>>, <<"kbd_print_stats", <<>>>> >>
    \o (IF USERPROG THEN << <<"exception_print_stats", <<>>>> >> ELSE <<>>)

\* lines 280-291: ends in the endless loop
PowerOff ==
  /\ pc = "power_off"
  /\ calls' =
       calls \o (IF FILESYS THEN << <<"filesys_done", <<>>>> >> ELSE <<>>)
             \o PrintStats \o << <<"outw", <<>>>> >>
  /\ pc' = "spin"
  /\ UNCHANGED <<panic_msg, buildVars, mem, loaded, rclVars, argv, cfgVars,
                 step, pagingVars, handled>>

Next ==
  \/ BssInit
  \/ RclBegin
  \/ RclScan
  \/ RclFinish
  \/ ParseOption
  \/ ParseOptionsReturn
  \/ StartSubsystem
  \/ PallocInit
  \/ PagingInitAlloc
  \/ PagingInitMap
  \/ PagingInitActivate
  \/ BootComplete
  \/ RunAction
  \/ RunActionsReturn
  \/ MainEnd
  \/ PowerOff

Spec == Init /\ [][Next]_vars

(***************************************************************************)
(* Properties                                                              *)
(***************************************************************************)
Present(e) == e % 2 = 1
Writable(e) == (e \div 2) % 2 = 1
Frame(e) == e - (e % PGSIZE)

InKernelText(va) == start <= va /\ va < _end_kernel_text

\* C1: after paging_init completes, for every page-aligned pa in [0, mem_end)
\* the leaf entry of ptov(pa) is present and maps pa, with the Writable bit
\* clear inside the kernel's code range and set outside it.
C1_MappingComplete ==
  active_pml4 =>
    \A n \in 0..((mem_end \div PGSIZE) - 1) :
      LET e == page_table[ptov(n * PGSIZE)]
      IN  /\ Present(e)
          /\ Frame(e) = n * PGSIZE
          /\ Writable(e) <=> ~InKernelText(ptov(n * PGSIZE))

\* read_command_line is over: it returned or it halted the boot
RclOver == pc \notin {"bss_init", "read_command_line", "rcl_scan"}

Overflowed ==
  pc = "panic" /\ Head(panic_msg) = "command line arguments overflow"

\* number of NUL-terminated strings the window holds
StringsInWindow ==
  Cardinality({ o \in 0..(LOADER_ARGS_LEN - 1) : loaded[o] = NUL })

\* the window is exhausted before the declared count of strings is read
Exhausted == arg_cnt.top \/ arg_cnt.low > StringsInWindow

\* the terminator of the last declared string is the last byte of the window
LastTerminatorAtEnd ==
  /\ ~arg_cnt.top
  /\ arg_cnt.low >= 1
  /\ arg_cnt.low = StringsInWindow
  /\ loaded[LOADER_ARGS_LEN - 1] = NUL

\* C2: read_command_line succeeds when the n-th string's terminator is the
\* last byte of the window, and halts with "command line arguments overflow"
\* whenever the window is exhausted before n terminated strings were read.
C2_OverflowDetected ==
  RclOver =>
    /\ Exhausted => Overflowed
    /\ LastTerminatorAtEnd => ~Overflowed

\* C3: read_command_line reads no byte at or beyond the window end, neither
\* when it scans for terminators nor when it echoes the tokens.
C3_ReadsInsideWindow == \A o \in rcl_reads : o < LOADER_ARGS_LEN

(***************************************************************************)
(* The command line as the loader left it, token by token.                 *)
(***************************************************************************)
\* number of tokens in the vector read_command_line built
RECURSIVE VectorLen(_)
VectorLen(k) == IF argv_array[k] = NULLP THEN k ELSE VectorLen(k + 1)

\* the k-th token as loaded
Token(k) == CStr(loaded, argv_array[k])

\* its name: the text before the first '='
TokenName(k) ==
  LET e == IndexOf(Token(k), "=", 1)
  IN  IF e = 0 THEN Token(k) ELSE SubSeq(Token(k), 1, e - 1)

\* its value: the text after the first '='
TokenValue(k) ==
  LET e == IndexOf(Token(k), "=", 1)
  IN  IF e = 0 THEN <<>> ELSE SubSeq(Token(k), e + 1, Len(Token(k)))

IsFlag(k) == Token(k) /= <<>> /\ Head(Token(k)) = "-"

\* index of the first token that is null or does not begin with '-'
RECURSIVE FirstNonFlag(_)
FirstNonFlag(k) ==
  IF argv_array[k] = NULLP \/ ~IsFlag(k) THEN k ELSE FirstNonFlag(k + 1)

\* parse_options has returned to main
ParseReturned == pc = "init" \/ step > 1

\* main's argv still is what parse_options returned
ArgvAsReturned == pc \in {"init", "paging_map"}

\* tokens parse_options has gone past
Consumed ==
  IF pc = "parse_options" THEN argv
  ELSE IF ParseReturned THEN FirstNonFlag(0) ELSE 0

Given(name, n) == \E k \in 0..(n - 1) : TokenName(k) = name

\* the configuration is what the first n tokens set, and nothing more
AppliedExactly(n) ==
  /\ power_off_when_done <=> Given(OPT_Q, n)
  /\ format_filesys <=> Given(OPT_F, n)
  /\ thread_mlfqs <=> Given(OPT_MLFQS, n)
  /\ thread_tests <=> Given(OPT_THREADS_TESTS, n)
  /\ random_seed /= <<>> <=> Given(OPT_RS, n)
  /\ user_page_limit /= <<>> <=> Given(OPT_UL, n)

\* C4: parse_options consumes exactly the maximal leading run of tokens that
\* begin with '-', applies each of them to the configuration and returns the
\* vector at the first token that is null or does not begin with '-'; the
\* tokens of the remainder are neither applied nor changed nor reordered.
C4_LeadingRunConsumed ==
  ParseReturned =>
    LET n == FirstNonFlag(0)
    IN  /\ ArgvAsReturned => argv = n
        /\ AppliedExactly(n)
        /\ \A k \in n..(VectorLen(0) - 1) :
             CStr(mem, argv_array[k]) = Token(k)

C4_Witness ==
  /\ pc = "init"
  /\ argv = 2
  /\ Token(0) = OPT_Q
  /\ Token(1) = T_RS12
  /\ power_off_when_done
  /\ random_seed = <<12>>
  /\ CStr(mem, argv_array[argv]) = ACT_RUN
  /\ CStr(mem, argv_array[argv + 1]) = T_A

UnknownOption == pc = "panic" /\ Head(panic_msg) = "unknown option"

\* C5: a flag token whose name is not a recognized option of the build halts
\* parse_options with "unknown option `<name>'" naming that token; no later
\* token is examined or applied, and parse_options does not return.
C5_UnknownOptionFatal ==
  /\ [](/\ \A k \in 0..(Consumed - 1) : TokenName(k) \in OptionNames
        /\ UnknownOption =>
             /\ panic_msg[2] = TokenName(argv)
             /\ TokenName(argv) \notin OptionNames
             /\ AppliedExactly(argv)
             /\ \A k \in (argv + 1)..(VectorLen(0) - 1) :
                  CStr(mem, argv_array[k]) = Token(k)
             /\ step = 1
             /\ handled = <<>>)
  /\ [][~UnknownOption]_vars

C5_Witness ==
  /\ UnknownOption
  /\ panic_msg[2] = T_ZZ
  /\ argv = 1
  /\ power_off_when_done
  /\ ~format_filesys
  /\ Token(2) = OPT_F

\* C6: every token parse_options processes is either recognized and fully
\* applied or halts the boot with a diagnostic; in particular the numeric
\* parser is never handed an absent value.
C6_AppliedOrFatal == \A n \in 1..Len(calls) : calls[n][1] /= "atoi(NULL)"

\* index of the last of the first n tokens that is named name, -1 if none
RECURSIVE LastGiven(_, _)
LastGiven(name, n) ==
  IF n = 0 THEN -1
  ELSE IF TokenName(n - 1) = name THEN n - 1 ELSE LastGiven(name, n - 1)

\* the value option name leaves v in the configuration: v is the number its
\* last occurrence carries, when that occurrence carries a value
LastWins(name, v) ==
  LET k == LastGiven(name, Consumed)
  IN  k >= 0 /\ TokenValue(k) /= <<>> => v = <<Atoi(TokenValue(k))>>

ToggleOptions == {OPT_Q, OPT_F, OPT_MLFQS, OPT_THREADS_TESTS}

\* C7: option scanning is idempotent and last-wins: a boolean flag given again
\* leaves the configuration as it is, and a value flag (-rs=, -ul=) given
\* again leaves the value of its last occurrence, whatever came before.
C7_IdempotentLastWins ==
  /\ [](/\ LastWins(OPT_RS, random_seed)
        /\ USERPROG => LastWins(OPT_UL, user_page_limit))
  /\ [][(/\ pc = "parse_options"
         /\ argv' = argv + 1
         /\ TokenName(argv) \in ToggleOptions
         /\ Given(TokenName(argv), argv))
          => UNCHANGED cfgVars]_vars

C7_Witness ==
  /\ ParseReturned
  /\ USERPROG
  /\ Consumed >= 2
  /\ Token(0) = T_UL3
  /\ Token(1) = T_UL1
  /\ user_page_limit = <<1>>

\* the entries of the action table named name
Named(name) == { k \in 1..Len(Actions) : Actions[k].name = name }

ArityOf(function) ==
  Actions[CHOOSE k \in 1..Len(Actions) : Actions[k].function = function].argc

NeedsArguments ==
  pc = "panic" /\ Head(panic_msg) = "action requires argument(s)"

\* C8: run_actions invokes the handler of an action of arity n only if the
\* n-1 tokens after the action name are all non-null; if fewer exist it halts
\* with "action `<name>' requires <n-1> argument(s)" and the handler is never
\* invoked.
C8_ArityChecked ==
  /\ \A h \in 1..Len(handled) :
       \A j \in 1..(ArityOf(handled[h].function) - 1) :
         argv_array[handled[h].at + j] /= NULLP
  /\ NeedsArguments =>
       /\ panic_msg[2] = Token(argv)
       /\ \E k \in Named(Token(argv)) :
            /\ panic_msg[3] = Actions[k].argc - 1
            /\ \E j \in 1..(Actions[k].argc - 1) : argv_array[argv + j] = NULLP
       /\ \A h \in 1..Len(handled) : handled[h].at /= argv

C8_Witness ==
  /\ NeedsArguments
  /\ FILESYS
  /\ panic_msg = <<"action requires argument(s)", ACT_CAT, 1>>
  /\ handled = <<>>

UnknownAction == pc = "panic" /\ Head(panic_msg) = "unknown action"

\* the handler invocations due for the tokens from index k up to index n
RECURSIVE Due(_, _)
Due(k, n) ==
  IF k >= n \/ argv_array[k] = NULLP \/ Named(Token(k)) = {} THEN <<>>
  ELSE LET a == Actions[CHOOSE e \in Named(Token(k)) : TRUE]
       IN  IF \E j \in 1..(a.argc - 1) : argv_array[k + j] = NULLP THEN <<>>
           ELSE <<[function |-> a.function, at |-> k]>> \o Due(k + a.argc, n)

\* C9: a head token that matches no name of the action table is fatal with
\* "unknown action `<name>'"; every action queued before the failing one has
\* been executed by then, and after a fatal failure no handler is invoked.
C9_UnknownActionFatal ==
  /\ [](/\ UnknownAction =>
             /\ panic_msg[2] = Token(argv)
             /\ Named(Token(argv)) = {}
        /\ UnknownAction \/ NeedsArguments =>
             handled = Due(FirstNonFlag(0), argv))
  /\ [][pc = "panic" => handled' = handled /\ calls' = calls]_vars

C9_Witness ==
  /\ UnknownAction
  /\ panic_msg[2] = T_XX
  /\ Len(handled) = 1
  /\ handled[1].function = "run_task"
  /\ Token(argv + 1) = ACT_RUN

\* number of calls of function f with argument x in the sequence s
RECURSIVE Count(_, _, _)
Count(s, f, x) ==
  IF s = <<>> THEN 0
  ELSE (IF Head(s)[1] = f /\ Head(s)[2] = x THEN 1 ELSE 0)
         + Count(Tail(s), f, x)

\* a step in which run_actions invokes the handler of run
RunInvoked ==
  /\ Len(handled') = Len(handled) + 1
  /\ handled'[Len(handled')].function = "run_task"

\* the calls the step adds
Added == SubSeq(calls', Len(calls) + 1, Len(calls'))

TestRunOnly(task) ==
  /\ Count(Added, "run_test", task) = 1
  /\ Len(Added) = 1

ProcessOnly(task) ==
  /\ Count(Added, "process_create_initd", task) = 1
  /\ Count(Added, "process_wait", <<>>) = 1
  /\ Len(Added) = 2

\* C10 as claimed: in every build the run action routes on the self-test flag
\* alone: the test runner once when it is set, process creation and wait once
\* when it is clear.
C10_RoutesOnFlagAlone ==
  [][RunInvoked =>
       IF thread_tests THEN TestRunOnly(Token(argv + 1))
                       ELSE ProcessOnly(Token(argv + 1))]_vars

\* C10: in a build with user programs the run action routes on the self-test
\* flag: the test runner exactly once with T and no process creation when it
\* is set, process creation and wait exactly once and no test runner when it
\* is clear.  In a build without user programs run always invokes the test
\* runner exactly once with T and never process creation.
C10_RoutesOnFlagAndBuild ==
  [][RunInvoked =>
       IF USERPROG /\ ~thread_tests THEN ProcessOnly(Token(argv + 1))
                                    ELSE TestRunOnly(Token(argv + 1))]_vars

C10_Witness ==
  /\ USERPROG
  /\ thread_tests
  /\ Len(handled) = 1
  /\ handled[1].function = "run_task"
  /\ Count(calls, "run_test", T_A) = 1
  /\ Count(calls, "process_create_initd", T_A) = 0

(***************************************************************************)
(* main as a whole                                                         *)
(***************************************************************************)
Called(f) == \E n \in 1..Len(calls) : calls[n][1] = f

\* -h was met: usage () was called
HelpGiven == Called("usage")

\* C11: main never returns.  When the action script completes without a
\* fatal condition, power_off runs if and only if power_off_when_done is set,
\* and only after every queued handler has returned; otherwise main ends in
\* thread_exit and power_off is never invoked.  The only states the boot can
\* end in are the idle hand-off and the wait loop of power_off.
C11_MainEnds ==
  /\ [](/\ pc \in {"main_end", "idle"} \/ (pc \in {"power_off", "spin"} /\ ~HelpGiven)
             => /\ argv_array[argv] = NULLP
                /\ argv = VectorLen(0)
                /\ handled = Due(FirstNonFlag(0), VectorLen(0))
        /\ pc \in {"power_off", "spin"} /\ ~HelpGiven => power_off_when_done
        /\ pc = "idle" =>
             /\ ~power_off_when_done
             /\ ~Called("outw")
             /\ calls[Len(calls)][1] = "thread_exit"
        /\ pc = "spin" => calls[Len(calls)][1] = "outw"
        /\ ~Called("thread_exit") \/ pc = "idle"
        /\ ~ENABLED Next => pc \in {"idle", "spin"})
  /\ [][pc = "main_end" =>
          pc' = IF power_off_when_done THEN "power_off" ELSE "idle"]_vars

\* the start-up calls of main, lines 69-100
StartUpNames ==
  {"thread_init", "console_init", "palloc_init", "malloc_init", "paging_init",
   "tss_init", "gdt_init", "intr_init", "timer_init", "kbd_init",
   "input_init", "exception_init", "syscall_init", "thread_start",
   "serial_init_queue", "timer_calibrate", "disk_init", "filesys_init",
   "vm_init"}

StartUpIssued == \E n \in 1..Len(calls) : calls[n][1] \in StartUpNames

\* C12: on -h parse_options prints the usage text and goes straight to
\* power_off, never to return: no token after -h is examined or applied, no
\* start-up call is issued, no action is run, and execution ends in the
\* wait loop of power_off.
C12_HelpPowersOff ==
  /\ [](HelpGiven =>
          /\ pc \in {"power_off", "spin"}
          /\ TokenName(argv) = OPT_H
          /\ AppliedExactly(argv)
          /\ \A k \in (argv + 1)..(VectorLen(0) - 1) :
               CStr(mem, argv_array[k]) = Token(k)
          /\ ~StartUpIssued
          /\ step = 1
          /\ handled = <<>>)
  /\ [][HelpGiven =>
          /\ pc = "power_off"
          /\ pc' = "spin"
          /\ UNCHANGED <<argv, mem, cfgVars, step, handled>>]_vars

C12_Witness ==
  /\ pc = "spin"
  /\ HelpGiven
  /\ argv = 1
  /\ power_off_when_done
  /\ Token(2) = T_ZZ

(***************************************************************************)
(* paging_init and the order of main                                       *)
(***************************************************************************)
\* C13: any allocation failure during the construction of the page table,
\* of the root frame or of a level on the walk to a leaf, halts the boot with
\* a diagnostic; paging_init never completes and activates a table in which
\* a page-aligned address of [0, mem_end) is left unmapped.
C13_AllocationFailureHalts ==
  /\ [](active_pml4 =>
          \A n \in 0..(MaxPages - 1) :
            n * PGSIZE < mem_end => page_table[ptov(n * PGSIZE)] /= 0)
  /\ [][pc = "paging_map" /\ pa < mem_end /\ page_table'[ptov(pa)] = 0
          => pc' = "panic"]_vars
  /\ [][pc = "init" /\ Called("paging_init")' /\ ~Called("paging_init")
          /\ ~base_pml4' => pc' = "panic"]_vars

\* the start-up calls issued so far, in the order of their issue
StartUpLog ==
  SelectSeq([n \in 1..Len(calls) |-> calls[n][1]],
            LAMBDA f : f \in StartUpNames)

IsPrefix(a, b) == Len(a) <= Len(b) /\ a = SubSeq(b, 1, Len(a))

\* main, lines 69-73: what is started before paging_init
BeforePaging == <<"thread_init", "console_init", "palloc_init", "malloc_init">>

DispatcherStarted ==
  \/ pc \in {"run_actions", "main_end", "idle"}
  \/ handled /= <<>>
  \/ pc \in {"power_off", "spin"} /\ ~HelpGiven

\* run_actions has returned
DispatcherDone ==
  \/ pc \in {"main_end", "idle"}
  \/ pc \in {"power_off", "spin"} /\ ~HelpGiven

\* main, lines 89-100: the last start-up call of the build
LastStartUp ==
  IF VM THEN "vm_init" ELSE IF FILESYS THEN "filesys_init" ELSE "timer_calibrate"

\* C15 as stated: read_command_line completes before parse_options starts,
\* parse_options before run_actions starts, and all three have completed
\* before the first start-up call is issued.
C15_AllBeforeStartUp ==
  /\ pc = "parse_options" => argc \in argv_writes
  /\ DispatcherStarted => ParseReturned
  /\ StartUpIssued => DispatcherDone

\* C15, amended: read_command_line completes before parse_options starts and
\* parse_options before the first start-up call (thread_init) is issued;
\* run_actions starts only after the last start-up call has been issued.
C15_ParseThenStartThenRun ==
  /\ ~RclOver => calls = <<>> /\ mem = loaded /\ argv = 0 /\ handled = <<>>
  /\ pc = "parse_options" =>
       /\ argc \in argv_writes
       /\ ~StartUpIssued
       /\ handled = <<>>
  /\ StartUpIssued =>
       /\ ParseReturned
       /\ Head(StartUpLog) = "thread_init"
       /\ argv >= FirstNonFlag(0)
  /\ DispatcherStarted =>
       /\ ParseReturned
       /\ StartUpLog[Len(StartUpLog)] = LastStartUp
       /\ Len(StartUpLog) =
            12 + (IF USERPROG THEN 4 ELSE 0) + (IF FILESYS THEN 2 ELSE 0)
               + (IF VM THEN 1 ELSE 0)
       /\ active_pml4

C15_Witness ==
  /\ pc = "run_actions"
  /\ handled = <<>>
  /\ argv = 1
  /\ argv_array[argv] /= NULLP
  /\ StartUpLog[Len(StartUpLog)] = "vm_init"

(***************************************************************************)
(* The bytes of the boot-argument window                                   *)
(***************************************************************************)
\* C16 as stated: the window is read-only: read_command_line, parse_options
\* and run_actions modify none of its bytes, so its contents are at every
\* moment what the loader supplied.
C16_WindowReadOnly ==
  \A o \in 0..(LOADER_ARGS_LEN - 1) : mem[o] = loaded[o]

HasValueSign(k) == IndexOf(Token(k), "=", 1) > 0

\* where the first '=' of the k-th token lies
EqOffset(k) == argv_array[k] + IndexOf(Token(k), "=", 1) - 1

\* C16, amended: read_command_line and run_actions modify no byte; the only
\* bytes parse_options modifies are the first '=' of the option tokens it
\* tokenises, each overwritten with NUL, so afterwards memory equals the
\* loader's contents except at the '=' of the consumed options.
C16_OnlyValueSignsCut ==
  /\ [](/\ \A o \in DOMAIN mem :
             mem[o] /= loaded[o] =>
               /\ mem[o] = NUL
               /\ loaded[o] = "="
               /\ \E k \in 0..(FirstNonFlag(0) - 1) :
                    k <= argv /\ HasValueSign(k) /\ o = EqOffset(k)
        /\ \A k \in 0..(Consumed - 1) :
             HasValueSign(k) => mem[EqOffset(k)] = NUL)
  /\ [][pc /= "parse_options" => mem' = mem]_vars

C16_Witness ==
  /\ pc = "main_end"
  /\ handled /= <<>>
  /\ \E o \in 0..(LOADER_ARGS_LEN - 1) : loaded[o] = "=" /\ mem[o] = NUL

(***************************************************************************)
(* power_off                                                               *)
(***************************************************************************)
\* the start-up call that initializes the subsystem a call of power_off or
\* print_stats addresses
InitOf ==
  [f \in {"filesys_done", "timer_print_stats", "thread_print_stats",
          "disk_print_stats", "console_print_stats", "kbd_print_stats",
          "exception_print_stats"} |->
     CASE f = "filesys_done" -> "filesys_init"
       [] f = "timer_print_stats" -> "timer_init"
       [] f = "thread_print_stats" -> "thread_init"
       [] f = "disk_print_stats" -> "disk_init"
       [] f = "console_print_stats" -> "console_init"
       [] f = "kbd_print_stats" -> "kbd_init"
       [] f = "exception_print_stats" -> "exception_init"]

\* the calls power_off has made
ShutdownLog ==
  SelectSeq([n \in 1..Len(calls) |-> calls[n][1]],
            LAMBDA f : f \in DOMAIN InitOf \/ f = "outw")

\* C17: every invocation of power_off finalizes storage (in file-system
\* builds), prints the counters in the order timer, thread, disk, console,
\* keyboard, exception, issues the power-off write and spins forever; and it
\* finalizes storage and prints counters only for subsystems that have been
\* initialized when it is called, the -h path included.
C17_ShutdownOrdered ==
  /\ ShutdownLog =
       IF pc = "spin"
         THEN (IF FILESYS THEN <<"filesys_done">> ELSE <<>>)
              \o <<"timer_print_stats", "thread_print_stats">>
              \o (IF FILESYS THEN <<"disk_print_stats">> ELSE <<>>)
              \o <<"console_print_stats", "kbd_print_stats">>
              \o (IF USERPROG THEN <<"exception_print_stats">> ELSE <<>>)
              \o <<"outw">>
         ELSE <<>>
  /\ \A n \in 1..Len(calls) :
       calls[n][1] \in DOMAIN InitOf =>
         \E m \in 1..(n - 1) : calls[m][1] = InitOf[calls[n][1]]

\* one of the four fatal conditions this file detects
FatalCondition ==
  /\ pc = "panic"
  /\ Head(panic_msg) \in {"command line arguments overflow", "unknown option",
                          "unknown action", "action requires argument(s)"}

\* C18: every fatal condition (window overflow, unrecognized option,
\* unrecognized action, insufficient action arguments) leads to power_off
\* being invoked before the terminal state is reached.
C18_FatalPowersOff == FatalCondition => Called("outw")

(***************************************************************************)
(* The cursor of run_actions                                               *)
(***************************************************************************)
\* arity of the action named by the token at index k
ArityAt(k) == Actions[CHOOSE e \in Named(Token(k)) : TRUE].argc

\* where the cursor is after the first n invocations
RECURSIVE CursorAfter(_)
CursorAfter(n) ==
  IF n = 0 THEN FirstNonFlag(0)
  ELSE CursorAfter(n - 1) + ArityAt(CursorAfter(n - 1))

\* C19: run_actions invokes the handlers strictly left to right: the k-th
\* invocation is at the name token whose index is the sum of the arities of
\* the k-1 actions before it; after each handler the cursor advances by
\* exactly that action's arity; it never moves past the null terminator of
\* the vector; and the loop ends, at the terminator or in a fatal halt, since
\* every iteration that does not halt moves the cursor forward.
C19_CursorAdvancesByArity ==
  /\ [](/\ \A k \in 1..Len(handled) :
             /\ handled[k].at = CursorAfter(k - 1)
             /\ handled[k].at < VectorLen(0)
             /\ Named(Token(handled[k].at)) /= {}
             /\ handled[k].function =
                  Actions[CHOOSE e \in Named(Token(handled[k].at)) : TRUE].function
        /\ DispatcherStarted =>
             /\ argv = CursorAfter(Len(handled))
             /\ argv <= VectorLen(0))
  /\ [][pc = "run_actions" =>
          \/ /\ pc' = "run_actions"
             /\ argv_array[argv] /= NULLP
             /\ Len(handled') = Len(handled) + 1
             /\ handled'[Len(handled')].at = argv
             /\ argv' = argv + ArityAt(argv)
             /\ argv' > argv
          \/ /\ pc' = "main_end"
             /\ argv_array[argv] = NULLP
             /\ UNCHANGED <<argv, handled>>
          \/ /\ pc' = "panic"
             /\ argv_array[argv] /= NULLP
             /\ UNCHANGED <<argv, handled>>]_vars

C19_Witness ==
  /\ pc = "main_end"
  /\ Len(handled) = 3
  /\ handled[2].at = handled[1].at + 2
  /\ handled[3].at = handled[2].at + 2
  /\ argv = handled[3].at + 1

(***************************************************************************)
(* The stores into the static vector of read_command_line                  *)
(***************************************************************************)
\* read_command_line is over without the overflow diagnostic
RclNotOverflowed == RclOver /\ ~Overflowed

\* C20: for any window and any 32-bit count for which
\* read_command_line does not halt with the overflow diagnostic, every index
\* it writes in the static vector (the token pointers and the terminator at
\* index count) lies in [0, LOADER_ARGS_LEN / 2 + 1).
C20_StoresInsideVector ==
  RclNotOverflowed => \A n \in argv_writes : ~StoreOutside(n)

====
